---- MODULE Spec2Model ----
(***************************************************************************)
(* Model of src/app.py, the Hotel ADR Dashboard: a Streamlit script that   *)
(* is executed top to bottom on every user interaction.  One run loads and *)
(* normalises the reservations table, classifies the rooms, reads the date *)
(* range, filters, reads the chart selection and executes one of the five  *)
(* chart routines.                                                         *)
(*                                                                         *)
(* Numbers: ADR and Total price are decimal amounts; the model keeps them  *)
(* as integers in hundredths (1000.00 is 100000).  A float that is NaN is  *)
(* the record NaN, any other float f is Num(f).                            *)
(* Texts are sequences of one-character strings.                           *)
(***************************************************************************)
EXTENDS Integers, Sequences, FiniteSets, TLC

(***************************************************************************)
(* Bounds of the model.                                                    *)
(***************************************************************************)
\* rows of the reservations file
MaxRows == 2
\* fragments a generated Room text is made of
MaxFrags == 4
\* list entries the interpreter can hold before it raises MemoryError
MaxEdges == 6

(***************************************************************************)
(* Floats.                                                                 *)
(***************************************************************************)
NaN == [nan |-> TRUE, v |-> 0]
Num(x) == [nan |-> FALSE, v |-> x]
\* float('inf') of line 91: above every amount of the model
INF == 999999999

\* a < b, a <= b on floats: every comparison with NaN is False
FLt(a, b) == ~a.nan /\ ~b.nan /\ a.v < b.v
FLe(a, b) == ~a.nan /\ ~b.nan /\ a.v <= b.v

\* a CSV cell handed to pd.to_numeric: the text of a number, or any other
\* text (empty, "n/a")
NumCell(x) == [num |-> TRUE, val |-> x]
JunkCell == [num |-> FALSE, val |-> 0]

\* pd.to_numeric(cell, errors='coerce')
to_numeric(cell) == IF cell.num THEN Num(cell.val) ELSE NaN

\* Series.fillna(d)
fillna(x, d) == IF x.nan THEN Num(d) ELSE x

(***************************************************************************)
(* Texts and map_room_type (lines 21-28).                                  *)
(***************************************************************************)
UpperChars == <<"A","B","C","D","E","F","G","H","I","J","K","L","M",
                "N","O","P","Q","R","S","T","U","V","W","X","Y","Z">>
LowerChars == <<"a","b","c","d","e","f","g","h","i","j","k","l","m",
                "n","o","p","q","r","s","t","u","v","w","x","y","z">>

\* str.lower() on one character
LowerChar(c) ==
    IF \E i \in 1..26 : UpperChars[i] = c
    THEN LowerChars[CHOOSE i \in 1..26 : UpperChars[i] = c]
    ELSE c

\* str.lower()
lower(s) == [i \in 1..Len(s) |-> LowerChar(s[i])]

\* whether needle occurs in hay starting at position i
MatchAt(needle, hay, i) ==
    /\ i + Len(needle) - 1 <= Len(hay)
    /\ \A k \in 1..Len(needle) : hay[i + k - 1] = needle[k]

RECURSIVE FindFrom(_, _, _)
\* left-to-right substring search: the first position >= i where needle
\* occurs in hay, 0 when there is none
FindFrom(needle, hay, i) ==
    IF i + Len(needle) - 1 > Len(hay) THEN 0
    ELSE IF MatchAt(needle, hay, i) THEN i
    ELSE FindFrom(needle, hay, i + 1)

\* the Python operator `needle in hay` on str
In(needle, hay) == FindFrom(needle, hay, 1) # 0

kwShower == <<"s","h","o","w","e","r">>
kwBathtub == <<"b","a","t","h","t","u","b">>
kwBathTub == <<"b","a","t","h"," ","t","u","b">>

ShowerType == "Deluxe Twin Room with Shower"
BathtubType == "Deluxe Twin Room with Bathtub"
OtherType == "Other"

\* a plausible slip: the bathtub test placed before the shower test
map_room_type_bathtub_first(room) ==
    LET r == lower(room) IN
    IF In(kwBathtub, r) \/ In(kwBathTub, r) THEN BathtubType
    ELSE IF In(kwShower, r) THEN ShowerType
    ELSE OtherType

map_room_type(room) ==
    LET r == lower(room) IN
    IF In(kwShower, r) THEN ShowerType
    ELSE IF In(kwBathtub, r) \/ In(kwBathTub, r) THEN BathtubType
    ELSE OtherType

(***************************************************************************)
(* Dates.  A date is the integer DateKey(d, m, y), which orders dates as   *)
(* the calendar does; NaT is the missing date.                             *)
(***************************************************************************)
NaT == -1
MonthNames == <<"Jan","Feb","Mar","Apr","May","Jun",
                "Jul","Aug","Sep","Oct","Nov","Dec">>
DaysInMonth(m, y) ==
    IF m = 2 THEN (IF y % 4 = 0 /\ (y % 100 # 0 \/ y % 400 = 0) THEN 29 ELSE 28)
    ELSE IF m \in {4, 6, 9, 11} THEN 30 ELSE 31
DateKey(d, m, y) == (y * 12 + (m - 1)) * 31 + (d - 1)
DayOf(k) == (k % 31) + 1
MonthOf(k) == ((k \div 31) % 12) + 1
YearOf(k) == k \div 372
IsDate(k) == k >= 0 /\ DayOf(k) <= DaysInMonth(MonthOf(k), YearOf(k))

\* pd.to_datetime(cell, format='%d/%m/%Y', errors='coerce') on a cell that
\* reads d/m/y: a day the calendar does not have gives NaT
to_datetime(cell) ==
    IF /\ cell[2] \in 1..12
       /\ cell[1] \in 1..DaysInMonth(cell[2], cell[3])
    THEN DateKey(cell[1], cell[2], cell[3])
    ELSE NaT

\* Series.dt.strftime('%b'); a missing date gives a missing month
strftime_b(k) == IF k = NaT THEN "NaN" ELSE MonthNames[MonthOf(k)]

(***************************************************************************)
(* Loading and normalisation (lines 10-29).                                *)
(***************************************************************************)
\* a plausible slip: the fillna(1) of line 18 left out
LoadNight_no_fillna(cell) == to_numeric(cell)

\* line 18
LoadNight(cell) == fillna(to_numeric(cell), 1)

\* lines 11-18 and 29 on one row of the file
LoadRow(raw) ==
    LET ci == to_datetime(raw.checkin) IN
    [Checkin |-> ci,
     Year |-> IF ci = NaT THEN 0 ELSE YearOf(ci),
     Month |-> strftime_b(ci),
     Day |-> IF ci = NaT THEN 0 ELSE DayOf(ci),
     ADR |-> to_numeric(raw.ADR),
     Total |-> to_numeric(raw.total),
     Room |-> raw.Room,
     night |-> LoadNight(raw.night),
     RoomType |-> map_room_type(raw.Room)]

\* lines 10-29: the table `data`
LoadData(file) == [i \in 1..Len(file) |-> LoadRow(file[i])]

BaseCols == {"Check-in", "Year", "Month", "Day", "ADR", "Total price",
             "Room", "night", "Room Type"}

\* Series.min() / Series.max() of the Check-in column, skipping NaT
DateMin(rows) ==
    LET S == {rows[i].Checkin : i \in 1..Len(rows)} \ {NaT} IN
    IF S = {} THEN NaT ELSE CHOOSE k \in S : \A j \in S : k <= j
DateMax(rows) ==
    LET S == {rows[i].Checkin : i \in 1..Len(rows)} \ {NaT} IN
    IF S = {} THEN NaT ELSE CHOOSE k \in S : \A j \in S : k >= j

(***************************************************************************)
(* The date-range filter (lines 43-49).                                    *)
(***************************************************************************)
\* a plausible slip: the end date excluded
KeepRow_end_exclusive(row, start_date, end_date) ==
    /\ row.Checkin # NaT
    /\ row.Checkin >= start_date
    /\ row.Checkin < end_date
    /\ row.RoomType \in {ShowerType, BathtubType}

\* the boolean mask of lines 46-48; a comparison with NaT is False
KeepRow(row, start_date, end_date) ==
    /\ row.Checkin # NaT
    /\ row.Checkin >= start_date
    /\ row.Checkin <= end_date
    /\ row.RoomType \in {ShowerType, BathtubType}

\* data[mask]: a new table holding the rows of the mask, in order
FilterRows(rows, start_date, end_date) ==
    LET keep(row) == KeepRow(row, start_date, end_date) IN
    SelectSeq(rows, keep)

\* line 43: isinstance(selected_dates, tuple) and len(selected_dates) == 2
IsRange(sel) == Len(sel) = 2

(***************************************************************************)
(* pd.cut (lines 93 and 167).                                              *)
(***************************************************************************)
\* Index.searchsorted(x, side='left'): how many edges are below x
searchsorted_left(bins, x) ==
    Cardinality({i \in 1..Len(bins) : FLt(bins[i], x)})
\* Index.searchsorted(x, side='right'): how many edges are at or below x
searchsorted_right(bins, x) ==
    Cardinality({i \in 1..Len(bins) : FLe(bins[i], x)})

\* pd.cut(..., right=False): a plausible slip, intervals closed on the left
cut_left_closed(x, bins, include_lowest) ==
    IF x.nan THEN 0
    ELSE LET ids == searchsorted_right(bins, x) IN
         IF ids = 0 \/ ids = Len(bins) THEN 0 ELSE ids

\* pd.cut(x, bins, labels, include_lowest) with the default right=True: the
\* number of the bin (lo, hi] holding x, 0 for no bin (NaN)
cut(x, bins, include_lowest) ==
    IF x.nan THEN 0
    ELSE LET ids0 == searchsorted_left(bins, x)
             ids == IF include_lowest /\ x = bins[1] THEN 1 ELSE ids0
         IN IF ids = 0 \/ ids = Len(bins) THEN 0 ELSE ids

\* lines 91-92
bins == <<Num(0), Num(80000), Num(100000), Num(120000), Num(INF)>>
labels == <<"<800", "800-1000", "1000-1200", ">1200">>

\* line 93: the ADR Group label of one ADR, "NaN" for none
ADRGroup(adr) ==
    LET g == cut(adr, bins, FALSE) IN
    IF g = 0 THEN "NaN" ELSE labels[g]

(***************************************************************************)
(* Top 3 ADR Revenue Share (lines 90-94).                                  *)
(***************************************************************************)
\* filtered[filtered['Month'] == selected_month]: a new table
MonthRows(rows, month) ==
    LET keep(row) == row.Month = month IN
    SelectSeq(rows, keep)

RECURSIVE SumTotal(_)
\* Series.sum() of Total price: NaN is skipped, the empty sum is 0
SumTotal(rows) ==
    IF rows = <<>> THEN 0
    ELSE (IF Head(rows).Total.nan THEN 0 ELSE Head(rows).Total.v)
         + SumTotal(Tail(rows))

\* the rows of one ADR Group
GroupRows(rows, g) ==
    LET keep(row) == ADRGroup(row.ADR) = labels[g] IN
    SelectSeq(rows, keep)

\* the group numbers groupby("ADR Group") reports: every category of the
\* categorical column when observed is False, those holding rows when True
GroupKeys(rows, observed) ==
    IF observed THEN {g \in 1..Len(labels) : GroupRows(rows, g) # <<>>}
    ELSE 1..Len(labels)

\* a set of group numbers as the sequence in category order
RECURSIVE KeySeq(_)
KeySeq(S) ==
    IF S = {} THEN <<>>
    ELSE LET g == CHOOSE x \in S : \A y \in S : x <= y IN
         <<g>> \o KeySeq(S \ {g})

\* groupby("ADR Group").agg(revenue=("Total price", "sum")): one row per
\* reported group, in category order
GroupRevenue(rows, observed) ==
    LET ks == KeySeq(GroupKeys(rows, observed)) IN
    [i \in 1..Len(ks) |->
        [group |-> labels[ks[i]], revenue |-> SumTotal(GroupRows(rows, ks[i]))]]

Perms(n) == {p \in [1..n -> 1..n] : \A i, j \in 1..n : p[i] = p[j] => i = j}

\* sort_values("revenue", ascending=False) with the default kind='quicksort',
\* which pandas documents as not stable: every descending order of the rows
\* is a possible result, rows of equal revenue in either order
sort_values(t) ==
    {[i \in 1..Len(t) |-> t[p[i]]] :
        p \in {q \in Perms(Len(t)) :
                 \A i, j \in 1..Len(t) :
                     i < j => t[q[i]].revenue >= t[q[j]].revenue}}

\* DataFrame.head(n)
head(t, n) == SubSeq(t, 1, IF Len(t) < n THEN Len(t) ELSE n)

\* line 94 after the groupby: the possible values of top3
Top3(grouped) == {head(s, 3) : s \in sort_values(grouped)}

\* lines 97-104: what the routine shows for a given top3
Chart2View(t) ==
    IF t # <<>>
    THEN IF Len(t) < 3 THEN <<"pie", "caption">> ELSE <<"pie">>
    ELSE <<"warning">>

(***************************************************************************)
(* ADR Bin Distribution (lines 160-170).                                   *)
(***************************************************************************)
ADRValues(rows) == {rows[i].ADR.v : i \in {j \in 1..Len(rows) : ~rows[j].ADR.nan}}

\* Series.min() / Series.max() of ADR: NaN is skipped, NaN when nothing is left
ADRMin(rows) ==
    LET S == ADRValues(rows) IN
    IF S = {} THEN NaN ELSE Num(CHOOSE x \in S : \A y \in S : x <= y)
ADRMax(rows) ==
    LET S == ADRValues(rows) IN
    IF S = {} THEN NaN ELSE Num(CHOOSE x \in S : \A y \in S : x >= y)

\* line 165: edge * (1 + step_percent), rounded to the nearest hundredth as
\* the float product is rounded to the nearest float
NextEdge(e) == IF e.nan THEN NaN ELSE Num((e.v * 105 + 50) \div 100)

Last(s) == s[Len(s)]

\* line 164: the loop condition
LoopCond(edges, adr_max) == FLt(Last(edges), adr_max)

\* int(x) of a float: truncation toward zero
IntPart(e) == IF e.v >= 0 THEN e.v \div 100 ELSE -((-e.v) \div 100)

\* line 166
bin_labels_of(edges) ==
    [i \in 1..(Len(edges) - 1) |-> <<IntPart(edges[i]), IntPart(edges[i + 1])>>]

\* the checks pd.cut makes before it bins: it raises ValueError for edges
\* that decrease, for repeated edges (unless there are exactly 2), and for
\* repeated labels
CutRaises(edges) ==
    LET lb == bin_labels_of(edges) IN
    \/ \E i \in 1..(Len(edges) - 1) : FLt(edges[i + 1], edges[i])
    \/ /\ Len(edges) # 2
       /\ \E i, j \in 1..Len(edges) : i < j /\ edges[i] = edges[j]
    \/ \E i, j \in 1..Len(lb) : i < j /\ lb[i] = lb[j]

\* the results pd.cut can have at line 167: "ValueError", or "ok".  For the
\* single edge NaN of an empty table the monotonicity check of pandas
\* depends on its version (an Index holding one NaN is not monotonic, the
\* older np.diff test passes), so both are possible
CutResults(edges) ==
    IF CutRaises(edges) THEN {"ValueError"}
    ELSE IF Len(edges) = 1 /\ edges[1].nan THEN {"ValueError", "ok"}
    ELSE {"ok"}

\* line 167: the ADR_BIN_5P column, the bin number of every row (0: NaN)
BinColumn(rows, edges) ==
    [i \in 1..Len(rows) |-> cut(rows[i].ADR, edges, TRUE)]

(***************************************************************************)
(* The state of the dashboard process.                                     *)
(***************************************************************************)
VARIABLES
    csv,              \* the rows of Cleaned_Reservations_Data.csv
    observed_default, \* the installed pandas' default of groupby(observed=)
    pc,               \* where the current run of the script stands
    data,             \* the loaded table (lines 10-29)
    selected_dates,   \* what st.sidebar.date_input returned (line 36)
    filtered,         \* the rows of the filtered table (line 45)
    filtered_cols,    \* the columns of the filtered table
    selected_chart,   \* line 62
    selected_month,   \* line 89
    month_data,       \* the rows of month_data (line 90)
    month_data_cols,  \* the columns of month_data
    top3,             \* line 94
    bin_edges,        \* line 163
    ADR_BIN_5P,       \* the column written at line 167
    view,             \* the elements the run has put on the page
    prev_stopped,     \* whether the previous run ended at st.stop()
    call,             \* a function under test: its name and argument
    ret               \* and its result

appVars == <<pc, data, selected_dates, filtered, filtered_cols, selected_chart,
             selected_month, month_data, month_data_cols, top3, bin_edges,
             ADR_BIN_5P, view, prev_stopped>>
vars == <<csv, observed_default, pc, data, selected_dates, filtered,
          filtered_cols, selected_chart, selected_month, month_data,
          month_data_cols, top3, bin_edges, ADR_BIN_5P, view, prev_stopped,
          call, ret>>

\* lines 55-61
chart_options == <<"Monthly ADR Distribution",
                   "Top 3 ADR Revenue Share by Month",
                   "Year-over-Year Trends",
                   "Seasonal Analysis (Interactive)",
                   "ADR Bin Distribution">>

\* the values a run's variables have before the script has assigned them
Unset ==
    /\ data = <<>>
    /\ selected_dates = <<>>
    /\ filtered = <<>>
    /\ filtered_cols = {}
    /\ selected_chart = "none"
    /\ selected_month = "none"
    /\ month_data = <<>>
    /\ month_data_cols = {}
    /\ top3 = <<>>
    /\ bin_edges = <<>>
    /\ ADR_BIN_5P = <<>>
    /\ view = <<>>

(***************************************************************************)
(* One run of the script, statement group by statement group.              *)
(***************************************************************************)
\* lines 10-29: read the file, normalise, classify
Load ==
    /\ pc = "start"
    /\ data' = LoadData(csv)
    /\ pc' = "loaded"
    /\ UNCHANGED <<csv, observed_default, selected_dates, filtered,
                   filtered_cols, selected_chart, selected_month, month_data,
                   month_data_cols, top3, bin_edges, ADR_BIN_5P, view,
                   prev_stopped, call, ret>>

\* lines 33-34 when no Check-in parsed: min() is NaT and NaT.date() raises
DateRangeFails ==
    /\ pc = "loaded"
    /\ DateMin(data) = NaT
    /\ pc' = "exception"
    /\ view' = Append(view, "exception")
    /\ UNCHANGED <<csv, observed_default, data, selected_dates, filtered,
                   filtered_cols, selected_chart, selected_month, month_data,
                   month_data_cols, top3, bin_edges, ADR_BIN_5P,
                   prev_stopped, call, ret>>

\* what the date_input of lines 36-41 can return: nothing, one date, or a
\* start and an end, all within [min_date, max_date]
Selections(min_date, max_date) ==
    LET D == {k \in min_date..max_date : IsDate(k)} IN
    {<<>>} \cup {<<a>> : a \in D}
           \cup {<<p[1], p[2]>> : p \in {q \in D \X D : q[1] <= q[2]}}

\* a plausible slip: st.stop() of line 52 left out, the script goes on
DateInput_no_stop ==
    /\ pc = "loaded"
    /\ DateMin(data) # NaT
    /\ \E sel \in Selections(DateMin(data), DateMax(data)) :
         /\ selected_dates' = sel
         /\ IF IsRange(sel)
            THEN /\ filtered' = FilterRows(data, sel[1], sel[2])
                 /\ filtered_cols' = BaseCols
                 /\ view' = view
            ELSE /\ view' = Append(view, "error")
                 /\ UNCHANGED <<filtered, filtered_cols>>
    /\ pc' = "filtered"
    /\ UNCHANGED <<csv, observed_default, data, selected_chart, selected_month,
                   month_data, month_data_cols, top3, bin_edges, ADR_BIN_5P,
                   prev_stopped, call, ret>>

\* lines 33-52: the date input, the filter, or the error and st.stop()
DateInput ==
    /\ pc = "loaded"
    /\ DateMin(data) # NaT
    /\ \E sel \in Selections(DateMin(data), DateMax(data)) :
         /\ selected_dates' = sel
         /\ IF IsRange(sel)
            THEN /\ filtered' = FilterRows(data, sel[1], sel[2])
                 /\ filtered_cols' = BaseCols
                 /\ view' = view
                 /\ pc' = "filtered"
            ELSE /\ view' = Append(view, "error")
                 /\ pc' = "stopped"
                 /\ UNCHANGED <<filtered, filtered_cols>>
    /\ UNCHANGED <<csv, observed_default, data, selected_chart, selected_month,
                   month_data, month_data_cols, top3, bin_edges, ADR_BIN_5P,
                   prev_stopped, call, ret>>

\* lines 62-64: the chart selector and the page title
SelectChart ==
    /\ pc = "filtered"
    /\ \E i \in 1..Len(chart_options) : selected_chart' = chart_options[i]
    /\ view' = Append(view, "title")
    /\ pc' = "dispatch"
    /\ UNCHANGED <<csv, observed_default, data, selected_dates, filtered,
                   filtered_cols, selected_month, month_data, month_data_cols,
                   top3, bin_edges, ADR_BIN_5P, prev_stopped, call, ret>>

\* lines 67-85: Monthly ADR Distribution; the groupby builds a new table
Chart1 ==
    /\ pc = "dispatch"
    /\ selected_chart = chart_options[1]
    /\ view' = Append(view, "scatter")
    /\ pc' = "done"
    /\ UNCHANGED <<csv, observed_default, data, selected_dates, filtered,
                   filtered_cols, selected_chart, selected_month, month_data,
                   month_data_cols, top3, bin_edges, ADR_BIN_5P, prev_stopped,
                   call, ret>>

\* lines 107-117: Year-over-Year Trends; the groupby builds a new table
Chart3 ==
    /\ pc = "dispatch"
    /\ selected_chart = chart_options[3]
    /\ view' = Append(view, "lines")
    /\ pc' = "done"
    /\ UNCHANGED <<csv, observed_default, data, selected_dates, filtered,
                   filtered_cols, selected_chart, selected_month, month_data,
                   month_data_cols, top3, bin_edges, ADR_BIN_5P, prev_stopped,
                   call, ret>>

\* lines 120-153: Seasonal Analysis; the groupby builds a new table
Chart4 ==
    /\ pc = "dispatch"
    /\ selected_chart = chart_options[4]
    /\ view' = Append(view, "sliders")
    /\ pc' = "done"
    /\ UNCHANGED <<csv, observed_default, data, selected_dates, filtered,
                   filtered_cols, selected_chart, selected_month, month_data,
                   month_data_cols, top3, bin_edges, ADR_BIN_5P, prev_stopped,
                   call, ret>>

\* lines 88-104
Chart2 ==
    /\ pc = "dispatch"
    /\ selected_chart = chart_options[2]
    /\ \E m \in 1..Len(MonthNames) :
         LET md == MonthRows(filtered, MonthNames[m]) IN
         /\ selected_month' = MonthNames[m]
         /\ month_data' = md
         /\ month_data_cols' = filtered_cols \cup {"ADR Group"}
         /\ \E t \in Top3(GroupRevenue(md, observed_default)) :
              /\ top3' = t
              /\ view' = view \o <<"title">> \o Chart2View(t)
    /\ pc' = "done"
    /\ UNCHANGED <<csv, observed_default, data, selected_dates, filtered,
                   filtered_cols, selected_chart, bin_edges, ADR_BIN_5P,
                   prev_stopped, call, ret>>

\* lines 157-163
Chart5Begin ==
    /\ pc = "dispatch"
    /\ selected_chart = chart_options[5]
    /\ bin_edges' = <<ADRMin(filtered)>>
    /\ pc' = "chart5_loop"
    /\ UNCHANGED <<csv, observed_default, data, selected_dates, filtered,
                   filtered_cols, selected_chart, selected_month, month_data,
                   month_data_cols, top3, ADR_BIN_5P, view, prev_stopped,
                   call, ret>>

\* lines 164-165: one iteration of the while loop
Chart5Append ==
    /\ pc = "chart5_loop"
    /\ LoopCond(bin_edges, ADRMax(filtered))
    /\ Len(bin_edges) < MaxEdges
    /\ bin_edges' = Append(bin_edges, NextEdge(Last(bin_edges)))
    /\ UNCHANGED <<csv, observed_default, pc, data, selected_dates, filtered,
                   filtered_cols, selected_chart, selected_month, month_data,
                   month_data_cols, top3, ADR_BIN_5P, view, prev_stopped,
                   call, ret>>

\* line 165 when the list cannot grow any more
Chart5MemoryError ==
    /\ pc = "chart5_loop"
    /\ LoopCond(bin_edges, ADRMax(filtered))
    /\ Len(bin_edges) = MaxEdges
    /\ pc' = "MemoryError"
    /\ view' = Append(view, "exception")
    /\ UNCHANGED <<csv, observed_default, data, selected_dates, filtered,
                   filtered_cols, selected_chart, selected_month, month_data,
                   month_data_cols, top3, bin_edges, ADR_BIN_5P, prev_stopped,
                   call, ret>>

\* lines 166-177, after the loop
Chart5Render ==
    /\ pc = "chart5_loop"
    /\ ~LoopCond(bin_edges, ADRMax(filtered))
    /\ \E r \in CutResults(bin_edges) :
         IF r = "ok"
         THEN /\ ADR_BIN_5P' = BinColumn(filtered, bin_edges)
              /\ filtered_cols' = filtered_cols \cup {"ADR_BIN_5P"}
              /\ view' = Append(view, "bars")
              /\ pc' = "done"
         ELSE /\ view' = Append(view, "exception")
              /\ pc' = "exception"
              /\ UNCHANGED <<ADR_BIN_5P, filtered_cols>>
    /\ UNCHANGED <<csv, observed_default, data, selected_dates, filtered,
                   selected_chart, selected_month, month_data, month_data_cols,
                   top3, bin_edges, prev_stopped, call, ret>>

Ended == pc \in {"done", "stopped", "exception", "MemoryError"}

\* the next interaction: Streamlit runs the script again from line 1, with
\* fresh script variables and an empty page
Rerun ==
    /\ Ended
    /\ pc' = "start"
    /\ prev_stopped' = (pc = "stopped")
    /\ data' = <<>>
    /\ selected_dates' = <<>>
    /\ filtered' = <<>>
    /\ filtered_cols' = {}
    /\ selected_chart' = "none"
    /\ selected_month' = "none"
    /\ month_data' = <<>>
    /\ month_data_cols' = {}
    /\ top3' = <<>>
    /\ bin_edges' = <<>>
    /\ ADR_BIN_5P' = <<>>
    /\ view' = <<>>
    /\ UNCHANGED <<csv, observed_default, call, ret>>

(***************************************************************************)
(* The reservations files of the model.                                    *)
(***************************************************************************)
fShow == <<"S", "h", "o", "w">>
fEr == <<"e", "r">>
fBATH == <<"B", "A", "T", "H">>
fTub == <<"t", "u", "b">>
fSp == <<" ">>
fTwin == <<"T", "w", "i", "n">>

RoomShower == fTwin \o fSp \o fShow \o fEr
RoomBathTub == fBATH \o fSp \o fTub
RoomSuite == fTwin

RawRow(c, r, a, t, n) == [checkin |-> c, Room |-> r, ADR |-> a, total |-> t, night |-> n]

\* the rows a file is made of: ordinary bookings of the three room kinds on
\* two days, a row without a usable date, and rows with the ADR, Total price
\* and night cells that need care (not a number; zero; negative; a second
\* positive ADR)
RowDomain ==
    {RawRow(<<31, 1, 2024>>, RoomShower, NumCell(100000), NumCell(90000), NumCell(2)),
     RawRow(<<1, 2, 2024>>, RoomBathTub, NumCell(100000), NumCell(90000), NumCell(2)),
     RawRow(<<1, 2, 2024>>, RoomSuite, NumCell(100000), NumCell(90000), NumCell(2)),
     RawRow(<<30, 2, 2024>>, RoomShower, NumCell(100000), NumCell(90000), NumCell(2)),
     RawRow(<<31, 1, 2024>>, RoomShower, JunkCell, JunkCell, JunkCell),
     RawRow(<<31, 1, 2024>>, RoomShower, NumCell(0), NumCell(90000), NumCell(0)),
     RawRow(<<31, 1, 2024>>, RoomShower, NumCell(-50000), NumCell(90000), NumCell(-1)),
     RawRow(<<31, 1, 2024>>, RoomBathTub, NumCell(110000), NumCell(50000), NumCell(3))}

Files == UNION {[1..n -> RowDomain] : n \in 0..MaxRows}

NoCall == [fn |-> "none", arg |-> <<>>]

Init ==
    /\ csv \in Files
    /\ observed_default \in BOOLEAN
    /\ pc = "start"
    /\ Unset
    /\ prev_stopped = FALSE
    /\ call = NoCall
    /\ ret = <<>>

Next ==
    \/ Load
    \/ DateRangeFails
    \/ DateInput
    \/ SelectChart
    \/ Chart1
    \/ Chart3
    \/ Chart4
    \/ Chart2
    \/ Chart5Begin
    \/ Chart5Append
    \/ Chart5MemoryError
    \/ Chart5Render
    \/ Rerun

Spec == Init /\ [][Next]_vars

(***************************************************************************)
(* The functions on their own: map_room_type, the ADR Group of line 93 and *)
(* the top3 of line 94, each applied to arguments drawn from a set.        *)
(***************************************************************************)
Frags == {fShow, fEr, fBATH, fTub, fSp, fTwin}

RECURSIVE TextsUpTo(_)
\* the texts made of at most n fragments
TextsUpTo(n) ==
    IF n = 0 THEN {<<>>}
    ELSE LET T == TextsUpTo(n - 1) IN
         T \cup {t \o f : t \in T, f \in Frags}

RoomTexts == TextsUpTo(MaxFrags)

\* ADR values around every breakpoint of line 91, in hundredths
CutADRs == {-100, 0, 1, 79999, 80000, 80001, 99999, 100000, 100001,
            119999, 120000, 120001, 500000}

RevDomain == {0, 30000, 50000, 90000}

\* the tables a groupby of line 94 can give: some of the four groups, in
\* category order, each with a revenue
GroupedTables ==
    {LET ks == KeySeq(K) IN
        [i \in 1..Len(ks) |-> [group |-> labels[ks[i]], revenue |-> r[ks[i]]]] :
            K \in SUBSET (1..Len(labels)), r \in [1..Len(labels) -> RevDomain]}

FnCalls ==
    {[fn |-> "map_room_type", arg |-> t] : t \in RoomTexts}
    \cup {[fn |-> "ADRGroup", arg |-> Num(a)] : a \in CutADRs}
    \cup {[fn |-> "ADRGroup", arg |-> NaN]}
    \cup {[fn |-> "top3", arg |-> g] : g \in GroupedTables}

InitFn ==
    /\ csv = <<>>
    /\ observed_default = FALSE
    /\ pc = "fn"
    /\ Unset
    /\ prev_stopped = FALSE
    /\ call \in FnCalls
    /\ ret = <<>>

CallMapRoomType ==
    /\ pc = "fn"
    /\ call.fn = "map_room_type"
    /\ ret' = map_room_type(call.arg)
    /\ pc' = "returned"
    /\ UNCHANGED <<csv, observed_default, data, selected_dates, filtered,
                   filtered_cols, selected_chart, selected_month, month_data,
                   month_data_cols, top3, bin_edges, ADR_BIN_5P, view,
                   prev_stopped, call>>

CallADRGroup ==
    /\ pc = "fn"
    /\ call.fn = "ADRGroup"
    /\ ret' = ADRGroup(call.arg)
    /\ pc' = "returned"
    /\ UNCHANGED <<csv, observed_default, data, selected_dates, filtered,
                   filtered_cols, selected_chart, selected_month, month_data,
                   month_data_cols, top3, bin_edges, ADR_BIN_5P, view,
                   prev_stopped, call>>

CallTop3 ==
    /\ pc = "fn"
    /\ call.fn = "top3"
    /\ \E t \in Top3(call.arg) : ret' = t
    /\ pc' = "returned"
    /\ UNCHANGED <<csv, observed_default, data, selected_dates, filtered,
                   filtered_cols, selected_chart, selected_month, month_data,
                   month_data_cols, top3, bin_edges, ADR_BIN_5P, view,
                   prev_stopped, call>>

NextFn == CallMapRoomType \/ CallADRGroup \/ CallTop3

SpecFn == InitFn /\ [][NextFn]_vars

(***************************************************************************)
(* Properties.                                                             *)
(***************************************************************************)
Elems(q) == {q[i] : i \in 1..Len(q)}
ChartElems == {"scatter", "pie", "lines", "sliders", "bars"}
Chart5Name == chart_options[5]
Chart2Name == chart_options[2]

\* the run has read a complete date range and built the filtered table
FilterDone == pc \notin {"start", "loaded", "fn", "returned"} /\ Len(selected_dates) = 2

\* whether kw occurs in text when letter case is ignored
ContainsCI(text, kw) ==
    \E i \in 1..Len(text) :
        /\ i + Len(kw) - 1 <= Len(text)
        /\ \A k \in 1..Len(kw) : LowerChar(text[i + k - 1]) = kw[k]

\* the rows of data a selection (start, end) must keep: those with a
\* Check-in date d, start <= d <= end, of the Shower or the Bathtub variant
WantedRows ==
    {i \in 1..Len(data) :
        /\ data[i].Checkin # NaT
        /\ selected_dates[1] <= data[i].Checkin
        /\ data[i].Checkin <= selected_dates[2]
        /\ data[i].RoomType \in {ShowerType, BathtubType}}

\* C1: once a complete date range (start, end) is read, and through every
\* chart routine, the filtered table holds exactly the rows of the loaded
\* table whose Check-in lies in [start, end], both ends included, and whose
\* Room Type is the Shower or the Bathtub variant: no row outside the range
\* and no row classified Other.
C1_FilteredExactly ==
    FilterDone =>
        /\ Len(filtered) = Cardinality(WantedRows)
        /\ \A i \in WantedRows : data[i] \in Elems(filtered)
        /\ \A j \in 1..Len(filtered) :
              /\ filtered[j] \in {data[i] : i \in WantedRows}
              /\ filtered[j].RoomType \in {ShowerType, BathtubType}
              /\ filtered[j].RoomType # OtherType

\* a chart routine is about to run on a table that kept the booking of the
\* end date and dropped a row classified Other that lies inside the range
C1_Witness ==
    /\ FilterDone
    /\ pc = "dispatch"
    /\ \E j \in 1..Len(filtered) : filtered[j].Checkin = selected_dates[2]
    /\ \E i \in 1..Len(data) :
          /\ data[i].RoomType = OtherType
          /\ data[i].Checkin # NaT
          /\ selected_dates[1] <= data[i].Checkin
          /\ data[i].Checkin <= selected_dates[2]

\* C2: a run whose date selection is not a (start, end) pair shows the error
\* and halts before the chart selector and every chart routine; a run that
\* got past the date input has a complete pair and shows no error; and a run
\* that follows a halted one and ends normally has drawn its chart (or the
\* routine's own warning), with no error on the page.
C2_IncompleteRangeHalts ==
    /\ (pc = "stopped" =>
          /\ ~IsRange(selected_dates)
          /\ view = <<"error">>
          /\ selected_chart = "none"
          /\ filtered = <<>> /\ top3 = <<>> /\ bin_edges = <<>>)
    /\ (pc \in {"filtered", "dispatch", "chart5_loop", "done", "MemoryError"} =>
          /\ IsRange(selected_dates)
          /\ "error" \notin Elems(view))
    /\ (selected_chart # "none" \/ Elems(view) \cap ChartElems # {} =>
          IsRange(selected_dates))
    /\ (prev_stopped /\ pc = "done" =>
          /\ view[1] = "title"
          /\ Elems(view) \cap (ChartElems \cup {"warning"}) # {})

\* a run halted on an incomplete selection, and the next run, with a pair,
\* drew a chart
C2_Witness ==
    /\ prev_stopped
    /\ pc = "done"
    /\ IsRange(selected_dates)
    /\ Elems(view) \cap ChartElems # {}

\* C9 as the code has it: after loading, no night value is null; a cell that
\* is not a number gives 1 and a cell that is a number keeps its value,
\* whatever its sign.
C9_NightNeverNull ==
    pc \notin {"start", "fn", "returned"} =>
        /\ Len(data) = Len(csv)
        /\ \A i \in 1..Len(data) :
              /\ ~data[i].night.nan
              /\ (csv[i].night.num => data[i].night = Num(csv[i].night.val))
              /\ (~csv[i].night.num => data[i].night = Num(1))

\* C9 as claimed: after loading every night value is a non-null number >= 0.
C9_NightNonNegative ==
    pc \notin {"start", "fn", "returned"} =>
        \A i \in 1..Len(data) : ~data[i].night.nan /\ data[i].night.v >= 0

\* a loaded table with a night cell that was not a number (now 1) and one
\* that was a negative number (kept)
C9_Witness ==
    /\ pc = "loaded"
    /\ \E i \in 1..Len(data) : ~csv[i].night.num /\ data[i].night = Num(1)
    /\ \E i \in 1..Len(data) : csv[i].night.num /\ data[i].night.v < 0

\* the label the three-way rule gives a text: Shower when the text holds
\* "shower" in any letter case, else Bathtub when it holds "bathtub" or
\* "bath tub", else Other
RuleLabel(text) ==
    IF ContainsCI(text, kwShower) THEN ShowerType
    ELSE IF ContainsCI(text, kwBathtub) \/ ContainsCI(text, kwBathTub)
         THEN BathtubType
    ELSE OtherType

\* C3: map_room_type returns, for every room text, one of the three labels,
\* chosen with fixed priority: Shower if the lower-cased text contains
\* "shower" (also when it contains "bathtub" or "bath tub"), otherwise
\* Bathtub if it contains "bathtub" or "bath tub", otherwise Other.
C3_RoomTypePriority ==
    (pc = "returned" /\ call.fn = "map_room_type") =>
        /\ ret \in {ShowerType, BathtubType, OtherType}
        /\ ret = RuleLabel(call.arg)

\* a text that holds both "shower" and "bathtub", in mixed case, classified
\* Shower
C3_Witness ==
    /\ pc = "returned"
    /\ call.fn = "map_room_type"
    /\ ContainsCI(call.arg, kwShower)
    /\ ContainsCI(call.arg, kwBathtub)
    /\ ~In(kwShower, call.arg)
    /\ ret = ShowerType

\* C4 as the code has it: the ADR Group buckets are closed on the right:
\* (0, 800] is "<800", (800, 1000] is "800-1000", (1000, 1200] is
\* "1000-1200", above 1200 is ">1200"; a NaN ADR and an ADR <= 0 get no
\* group.
C4_BucketsRightClosed ==
    (pc = "returned" /\ call.fn = "ADRGroup") =>
        ret = IF call.arg.nan \/ call.arg.v <= 0 THEN "NaN"
              ELSE IF call.arg.v <= 80000 THEN "<800"
              ELSE IF call.arg.v <= 100000 THEN "800-1000"
              ELSE IF call.arg.v <= 120000 THEN "1000-1200"
              ELSE ">1200"

\* C4 as claimed: the lower breakpoint belongs to the upper bucket: 799.99
\* is "<800", 800 is "800-1000", 1000 is "1000-1200", 1199.99 is
\* "1000-1200" and 1200 is ">1200".
C4_BucketsLowerIncluded ==
    (pc = "returned" /\ call.fn = "ADRGroup" /\ ~call.arg.nan) =>
        /\ (call.arg.v = 79999 => ret = "<800")
        /\ (call.arg.v = 80000 => ret = "800-1000")
        /\ (call.arg.v = 100000 => ret = "1000-1200")
        /\ (call.arg.v = 119999 => ret = "1000-1200")
        /\ (call.arg.v = 120000 => ret = ">1200")

\* an ADR of exactly 800 labelled "<800"
C4_Witness ==
    /\ pc = "returned"
    /\ call.fn = "ADRGroup"
    /\ call.arg = Num(80000)
    /\ ret = "<800"

\* the rows of t by revenue descending, rows of equal revenue in their
\* original order
StableDesc(t) ==
    LET p == CHOOSE q \in Perms(Len(t)) :
                \A i, j \in 1..Len(t) :
                    i < j => \/ t[q[i]].revenue > t[q[j]].revenue
                             \/ /\ t[q[i]].revenue = t[q[j]].revenue
                                /\ q[i] < q[j]
    IN [i \in 1..Len(t) |-> t[p[i]]]

\* C6: top3 has at most 3 rows, by revenue descending, the buckets of
\* highest revenue, and buckets of equal revenue keep their original group
\* order: for A:500, B:900, C:300, D:900 it is exactly B, D, A.
C6_Top3TiesKeepGroupOrder ==
    (pc = "returned" /\ call.fn = "top3") =>
        /\ Len(ret) <= 3
        /\ \A i, j \in 1..Len(ret) : i < j => ret[i].revenue >= ret[j].revenue
        /\ ret = head(StableDesc(call.arg), 3)

\* the edges of a Chart 5 run can be judged: the loop is running or over
EdgesBuilt == selected_chart = Chart5Name /\ bin_edges # <<>>
LoopLeft == selected_chart = Chart5Name /\ pc \in {"done", "exception"}

\* C5: for a filtered table that holds an ADR value, bin_edges starts at the
\* filtered minimum ADR, each later edge is the previous edge times 1.05 (to
\* the rounding of the product), the edges are strictly increasing, and when
\* the loop is left the last edge is >= the filtered maximum ADR, there is at
\* least one bin and every filtered ADR value lies in a bin.
C5_BinEdgesCoverADR ==
    /\ (EdgesBuilt /\ ADRValues(filtered) # {}) =>
          /\ bin_edges[1] = ADRMin(filtered)
          /\ \A i \in 1..(Len(bin_edges) - 1) :
                /\ ~bin_edges[i].nan /\ ~bin_edges[i + 1].nan
                /\ 100 * bin_edges[i + 1].v - 105 * bin_edges[i].v \in -50..50
                /\ bin_edges[i].v < bin_edges[i + 1].v
    /\ (LoopLeft /\ ADRValues(filtered) # {}) =>
          /\ FLe(ADRMax(filtered), Last(bin_edges))
          /\ Len(bin_edges) >= 2
          /\ \A i \in 1..Len(filtered) :
                ~filtered[i].ADR.nan => cut(filtered[i].ADR, bin_edges, TRUE) # 0

\* C10: the bin-edge loop terminates on every filtered table that reaches
\* it: it never goes on appending edges until the interpreter is out of
\* memory.
C10_BinLoopTerminates == pc # "MemoryError"

\* the ADR Group buckets of month_data that hold rows
BucketsWithRows == {g \in 1..Len(labels) : GroupRows(month_data, g) # <<>>}

\* C7: in the Top-3 routine a month with no filtered rows gives the
\* "No data available." warning and no chart, and a month with rows in
\* fewer than 3 buckets gives the chart with the "Only N ADR groups found"
\* caption.
C7_EmptyMonthWarns ==
    (pc = "done" /\ selected_chart = Chart2Name) =>
        /\ (month_data = <<>> =>
              "warning" \in Elems(view) /\ "pie" \notin Elems(view))
        /\ (Cardinality(BucketsWithRows) \in 1..2 =>
              "pie" \in Elems(view) /\ "caption" \in Elems(view))

\* C8: no routine changes the loaded table or the filtered table: data is
\* what the load produced, and the filtered table keeps the rows and the
\* columns the filter gave it (bucket columns go to a routine-local copy).
C8_TablesNotMutated ==
    /\ (pc \notin {"start", "fn", "returned"} => data = LoadData(csv))
    /\ (FilterDone =>
          /\ filtered = FilterRows(data, selected_dates[1], selected_dates[2])
          /\ filtered_cols = BaseCols)

====
